---- MODULE Spec2Model ----
(***************************************************************************)
(* restage.py: packing a list of stage directories into one STAGE.DIR      *)
(* container (pack_dir / pack_stage) and unpacking it again (unpack_dir /  *)
(* unpack_stage / write_stage_config).                                     *)
(*                                                                         *)
(* Text (file names, config lines, stage names) is modelled as sequences   *)
(* of byte values, the container file as a sparse byte map plus a length   *)
(* and a cursor.                                                           *)
(***************************************************************************)
EXTENDS Integers, Sequences, FiniteSets, TLC

VARIABLES
    stageList,  \* the lines of stage_list.txt
    cnf,        \* the lines of data.cnf, per stage directory
    pc,         \* the position of the program
    buf,        \* the container file and the cursor of the BufWriter / BufReader
    pd,         \* the locals of pack_dir
    ps,         \* the locals of the running pack_stage call
    ud,         \* the locals of unpack_dir
    us,         \* the locals of the running unpack_stage call
    plog,       \* one entry per returned pack_stage call
    out,        \* one entry per returned unpack_stage call
    outList,    \* the lines of the stage_list.txt written by unpack_dir
    err         \* the exception that ended the program, if any

vars == <<stageList, cnf, pc, buf, pd, ps, ud, us, plog, out, outList, err>>

----------------------------------------------------------------------------
(* Bounds of the model *)

\* longest data.cnf (in lines) of the freely chosen stage
MaxLines == 4
\* longest data.cnf of that stage when the second stage is packed along
MaxShort == 2
\* file counts of the wide stages: WideLo .. WideLo + WideSpan
WideLo == 253
WideSpan == 2
\* stage counts of the long stage lists: ManyLo .. ManyLo + ManySpan
ManyLo == 169
ManySpan == 2

----------------------------------------------------------------------------
(* Program constants *)

SECTOR == 2048

Max(a, b) == IF a >= b THEN a ELSE b

\* text literals of the program, as byte sequences
DotResident == <<46, 114, 101, 115, 105, 100, 101, 110, 116>>
DotNocache  == <<46, 110, 111, 99, 97, 99, 104, 101>>
DotCache    == <<46, 99, 97, 99, 104, 101>>
DotSound    == <<46, 115, 111, 117, 110, 100>>
CacheEnd    == <<99, 97, 99, 104, 101, 95, 101, 110, 100>>
ExtDar      == <<100, 97, 114>>
ExtBin      == <<98, 105, 110>>
DotBin      == <<46, 98, 105, 110>>

\* section letters: ord('r'), ord('n'), ord('c'), ord('s')
SecR == 114
SecN == 110
SecC == 99
SecS == 115
\* the value of `section` before any directive (None)
None == 0
\* ord('\xff')
ExtTrailer == 255

----------------------------------------------------------------------------
(* The stage directories on disk *)

FileA == <<97, 46, 116, 101, 120>>          \* a.tex
FileB == <<98, 99, 46, 116, 101, 120>>      \* bc.tex
FileM == <<109, 46, 100, 97, 114>>          \* m.dar
FileX == <<120, 46, 98, 105, 110>>          \* x.bin
FileE == <<101, 46, 107, 109, 100>>         \* e.kmd

DiskFiles == {FileA, FileB, FileM, FileX, FileE}

\* content of a file of a stage directory (every stage directory holds the
\* same files)
Content(f) ==
    IF f = FileA THEN <<65>>
    ELSE IF f = FileB THEN <<66, 67>>
    ELSE IF f = FileM THEN <<68, 0, 70>>
    ELSE IF f = FileX THEN <<71>>
    ELSE <<>>

StageDir == [f \in DiskFiles |-> Content(f)]

StageS1 == <<83, 49>>
StageS2 == <<83, 50>>

----------------------------------------------------------------------------
(* BufWriter / BufReader over the container file *)

EmptyFile == [mem |-> <<>>, len |-> 0, cur |-> 0]

ByteAt(b, p) == IF p \in DOMAIN b.mem THEN b.mem[p] ELSE 0

\* file.write(data) at the cursor
BufWrite(b, data) ==
    LET n == Len(data)
        lo == b.cur
        keep == {p \in DOMAIN b.mem : p < lo \/ p >= lo + n}
        put == {lo + i - 1 : i \in {j \in 1..n : data[j] # 0}}
    IN [mem |-> [p \in put |-> data[p - lo + 1]] @@ [p \in keep |-> b.mem[p]],
        len |-> IF n = 0 THEN b.len ELSE Max(b.len, lo + n),
        cur |-> lo + n]

Zeros(n) == [i \in 1..n |-> 0]

\* an align that always moves on
AlignedPast(cur, n) == ((cur + n) \div n) * n

\* aligned = ((cur + (n - 1)) // n) * n
Aligned(cur, n) == ((cur + (n - 1)) \div n) * n

\* BufWriter.align
BufAlign(b, n) == BufWrite(b, Zeros(Aligned(b.cur, n) - b.cur))

BufSeek(b, off) == [b EXCEPT !.cur = off]

\* struct.pack of a little-endian integer of n bytes
LE(v, n) == [i \in 1..n |-> (v \div (256 ^ (i - 1))) % 256]

BufPack(b, v, n) == BufWrite(b, LE(v, n))

\* file.read(size): short at the end of the file, everything when size < 0
BufRead(b, size) ==
    LET avail == Max(b.len - b.cur, 0)
        n == IF size < 0 \/ size > avail THEN avail ELSE size
    IN [data |-> [i \in 1..n |-> ByteAt(b, b.cur + i - 1)],
        buf |-> [b EXCEPT !.cur = b.cur + n]]

\* value of little-endian bytes
RECURSIVE FromLE(_)
FromLE(bytes) ==
    IF bytes = <<>> THEN 0 ELSE bytes[1] + 256 * FromLE(Tail(bytes))

\* BufReader.unpack of an unsigned integer of n bytes; ok is FALSE when the
\* file is too short (struct.error)
BufUnpack(b, n) ==
    LET r == BufRead(b, n)
    IN [ok |-> Len(r.data) = n, val |-> FromLE(r.data), buf |-> r.buf]

\* BufReader.align
BufSkipAlign(b, n) == BufRead(b, Aligned(b.cur, n) - b.cur).buf

----------------------------------------------------------------------------
(* strcode *)

RECURSIVE StrcodeFrom(_, _)
StrcodeFrom(code, bytes) ==
    IF bytes = <<>> THEN code
    ELSE LET rot == ((code \div 2048) + ((code * 32) % 65536)) % 65536
         IN StrcodeFrom((rot + bytes[1]) % 65536, Tail(bytes))

strcode(name) == StrcodeFrom(0, name)

----------------------------------------------------------------------------
(* pack_stage *)

DotPositions(line) == {i \in 1..Len(line) : line[i] = 46}

\* (name, ext) = line.split('.'): a ValueError unless there is exactly one dot
SplitLine(line) ==
    LET d == DotPositions(line)
    IN IF Cardinality(d) = 1
       THEN LET i == CHOOSE j \in d : TRUE
            IN [ok |-> TRUE, name |-> SubSeq(line, 1, i - 1),
                ext |-> SubSeq(line, i + 1, Len(line))]
       ELSE [ok |-> FALSE, name |-> <<>>, ext |-> <<>>]

Directives == {DotResident, DotNocache, DotCache, DotSound}

\* directives that may follow anything earlier in the fixed order
DirectiveAllowedSkipping(line, section) ==
    IF line = DotResident THEN section = None
    ELSE IF line = DotNocache THEN section \in {None, SecR}
    ELSE IF line = DotCache THEN section \in {None, SecR, SecN}
    ELSE section \in {None, SecR, SecN, SecC}

\* the assertion guarding the directive `line`, given the current section
DirectiveAllowed(line, section) ==
    IF line = DotResident THEN section = None
    ELSE IF line = DotNocache THEN section \in {None, SecR}
    ELSE IF line = DotCache THEN section \in {SecR, SecN}
    ELSE section = SecC

\* the section a directive switches to
DirectiveSection(line) ==
    IF line = DotResident THEN SecR
    ELSE IF line = DotNocache THEN SecN
    ELSE IF line = DotCache THEN SecC
    ELSE SecS

\* the locals of pack_stage before its first statement; recs, recsEnd, payload
\* and segs record what the call wrote where
NoPackStage ==
    [stage |-> <<>>, li |-> 0, section |-> None, files |-> <<>>, start |-> 0,
     i |-> 0, in_cache |-> FALSE, cache_size |-> 0,
     recs |-> <<>>, recsEnd |-> 0, payload |-> 0, segs |-> <<>>]

NoError == [type |-> "", at |-> ""]

\* an exception ends the program
Raise(type) ==
    /\ pc' = "failed"
    /\ err' = [type |-> type, at |-> pc]

\* lines 66-73: pack_dir calls pack_stage for the next stage, which opens
\* the data.cnf of the stage
PackStageCall ==
    /\ pc = "stage_loop"
    /\ Len(pd.sizes) < Len(stageList)
    /\ ps' = [NoPackStage EXCEPT !.stage = stageList[Len(pd.sizes) + 1],
                                 !.li = 1]
    /\ pc' = "config"
    /\ UNCHANGED <<stageList, cnf, buf, pd, ud, us, plog, out, outList, err>>

\* lines 74-101: one line of data.cnf
ReadConfigLine ==
    /\ pc = "config"
    /\ ps.li <= Len(cnf[ps.stage])
    /\ LET line == cnf[ps.stage][ps.li]
           split == SplitLine(line)
       IN IF line \in Directives
          THEN IF DirectiveAllowed(line, ps.section)
               THEN /\ ps' = [ps EXCEPT !.section = DirectiveSection(line),
                                        !.li = @ + 1]
                    /\ UNCHANGED <<pc, err>>
               ELSE Raise("AssertionError") /\ UNCHANGED ps
          ELSE IF ps.section = None
               THEN Raise("AssertionError") /\ UNCHANGED ps
          ELSE IF ~split.ok
               THEN Raise("ValueError") /\ UNCHANGED ps
          ELSE IF line \notin DOMAIN StageDir
               THEN Raise("FileNotFoundError") /\ UNCHANGED ps
          ELSE /\ ps' = [ps EXCEPT
                            !.files = Append(@, [name |-> split.name,
                                                 ext |-> split.ext,
                                                 section |-> ps.section,
                                                 size |-> Len(StageDir[line])]),
                            !.li = @ + 1]
               /\ UNCHANGED <<pc, err>>
    /\ UNCHANGED <<stageList, cnf, buf, pd, ud, us, plog, out, outList>>

\* lines 108-112: keep the start of the stage and skip its sub-header
PackSeekHeader ==
    /\ pc = "config"
    /\ ps.li > Len(cnf[ps.stage])
    /\ ps' = [ps EXCEPT !.start = buf.cur, !.i = 1, !.in_cache = FALSE,
                        !.cache_size = 0]
    /\ buf' = BufSeek(buf, buf.cur + 4)
    /\ pc' = "records"
    /\ UNCHANGED <<stageList, cnf, pd, ud, us, plog, out, outList, err>>

\* a tag that follows the section only
SectionTagPlain(f) == f.section

\* the section_tag byte of an entry record (lines 125-128)
SectionTag(f) == IF f.ext = ExtBin THEN SecS ELSE f.section

\* one 8-byte record
PackRecord(b, code, tag, ext, value) ==
    BufPack(BufPack(BufPack(BufPack(b, code, 2), tag, 1), ext, 1), value, 4)

\* lines 114-144: the record of entry i, and the trailer of a cache run after
\* its last member; recs logs the records packed (file is the index of the
\* entry, 0 for a trailer)
PackEntryRecord ==
    /\ pc = "records"
    /\ ps.i <= Len(ps.files)
    /\ LET i == ps.i
           f == ps.files[i]
           in_cache == ps.in_cache \/ f.section = SecC
           code == IF f.ext = ExtDar THEN 0 ELSE strcode(f.name)
           value == IF in_cache THEN ps.cache_size ELSE f.size
           cache_size == IF in_cache THEN ps.cache_size + f.size
                         ELSE ps.cache_size
           b1 == PackRecord(buf, code, SectionTag(f), f.ext[1], value)
           r1 == Append(ps.recs, [pos |-> buf.cur, file |-> i,
                                  value |-> value])
           ends == in_cache /\ (i = Len(ps.files)
                                \/ ps.files[i + 1].section # SecC)
       IN IF ends
          THEN /\ buf' = PackRecord(b1, 0, SecC, ExtTrailer, cache_size)
               /\ ps' = [ps EXCEPT !.i = i + 1, !.in_cache = FALSE,
                            !.cache_size = cache_size,
                            !.recs = Append(r1, [pos |-> b1.cur, file |-> 0,
                                                 value |-> cache_size])]
          ELSE /\ buf' = b1
               /\ ps' = [ps EXCEPT !.i = i + 1, !.in_cache = in_cache,
                            !.cache_size = cache_size, !.recs = r1]
    /\ UNCHANGED <<stageList, cnf, pc, pd, ud, us, plog, out, outList, err>>

\* line 146: pad the records to a sector
PackHeaderAlign ==
    /\ pc = "records"
    /\ ps.i > Len(ps.files)
    /\ buf' = BufAlign(buf, SECTOR)
    /\ ps' = [ps EXCEPT !.recsEnd = buf.cur, !.payload = buf'.cur, !.i = 1]
    /\ pc' = "payload"
    /\ UNCHANGED <<stageList, cnf, pd, ud, us, plog, out, outList, err>>

\* is the payload of entry i followed by an align (lines 154-157)
PayloadAligned(files, i) ==
    \/ files[i].section # SecC
    \/ i = Len(files)
    \/ files[i + 1].section # SecC

\* lines 148-157: the payload of entry i; segs logs the cursor before the
\* write, after the write and after the align (if any)
PackPayload ==
    /\ pc = "payload"
    /\ ps.i <= Len(ps.files)
    /\ LET f == ps.files[ps.i]
           b1 == BufWrite(buf, StageDir[f.name \o <<46>> \o f.ext])
           al == PayloadAligned(ps.files, ps.i)
           b2 == IF al THEN BufAlign(b1, SECTOR) ELSE b1
       IN /\ buf' = b2
          /\ ps' = [ps EXCEPT !.i = @ + 1,
                       !.segs = Append(@, [from |-> buf.cur, to |-> b1.cur,
                                           aligned |-> al, end |-> b2.cur])]
    /\ UNCHANGED <<stageList, cnf, pc, pd, ud, us, plog, out, outList, err>>

\* the header size pack_stage computes, in bytes (lines 159-160)
HeaderBytes(files) == Aligned(4 + Len(files) * 8, SECTOR)

\* lines 159-176 and 195-197: back-patch the sub-header and return the size
\* of the stage to pack_dir, which notes it and aligns
PackStageReturn ==
    /\ pc = "payload"
    /\ ps.i > Len(ps.files)
    /\ LET header == HeaderBytes(ps.files)
           total == buf.cur
           b1 == BufPack(BufPack(BufSeek(buf, ps.start),
                                 header \div SECTOR, 2),
                         (total - ps.start) \div SECTOR, 2)
           b2 == BufAlign(BufSeek(b1, total), SECTOR)
       IN /\ buf' = b2
          /\ pd' = [pd EXCEPT !.sizes = Append(@, [stage |-> ps.stage,
                                                   size |-> total - ps.start])]
          /\ plog' = Append(plog, [stage |-> ps.stage, start |-> ps.start,
                                   files |-> ps.files, recs |-> ps.recs,
                                   recsEnd |-> ps.recsEnd,
                                   payload |-> ps.payload, segs |-> ps.segs,
                                   total |-> total, end |-> b2.cur])
    /\ pc' = "stage_loop"
    /\ UNCHANGED <<stageList, cnf, ps, ud, us, out, outList, err>>

----------------------------------------------------------------------------
(* pack_dir *)

NoPackDir == [sizes |-> <<>>, off |-> 0, t |-> 0]

\* struct.pack("8s", stage): cut or zero-padded to 8 bytes
Pack8s(name) == [i \in 1..8 |-> IF i <= Len(name) THEN name[i] ELSE 0]

\* lines 179-190: open the output, write the table size, seek to the data
PackDirOpen ==
    /\ pc = "pack_dir"
    /\ LET header_size == Len(stageList) * 12
       IN buf' = BufSeek(BufPack(EmptyFile, header_size, 4),
                         Aligned(header_size, SECTOR))
    /\ pc' = "stage_loop"
    /\ UNCHANGED <<stageList, cnf, pd, ps, ud, us, plog, out, outList, err>>

\* lines 199-201: back to the table, the first offset is sector 1
PackTableBegin ==
    /\ pc = "stage_loop"
    /\ Len(pd.sizes) = Len(stageList)
    /\ buf' = BufSeek(buf, 4)
    /\ pd' = [pd EXCEPT !.off = 1, !.t = 1]
    /\ pc' = "table"
    /\ UNCHANGED <<stageList, cnf, ps, ud, us, plog, out, outList, err>>

\* lines 202-209: the table entry of one stage
PackTableEntry ==
    /\ pc = "table"
    /\ pd.t <= Len(pd.sizes)
    /\ LET e == pd.sizes[pd.t]
       IN /\ buf' = BufPack(BufWrite(buf, Pack8s(e.stage)), pd.off, 4)
          /\ pd' = [pd EXCEPT !.off = @ + (e.size + (SECTOR - 1)) \div SECTOR,
                              !.t = @ + 1]
    /\ UNCHANGED <<stageList, cnf, pc, ps, ud, us, plog, out, outList, err>>

\* lines 211-213: close the output
PackDirClose ==
    /\ pc = "table"
    /\ pd.t > Len(pd.sizes)
    /\ pc' = "packed"
    /\ UNCHANGED <<stageList, cnf, buf, pd, ps, ud, us, plog, out, outList,
                   err>>

----------------------------------------------------------------------------
(* unpack_dir *)

NoUnpackDir == [n_stages |-> 0, stages |-> <<>>, k |-> 0]

\* name.rstrip("\x00")
RECURSIVE RStrip0(_)
RStrip0(name) ==
    IF name # <<>> /\ name[Len(name)] = 0
    THEN RStrip0(SubSeq(name, 1, Len(name) - 1))
    ELSE name

\* lines 343-351: open the container and read the size of its stage table
UnpackDirOpen ==
    /\ pc = "packed"
    /\ LET header_size == BufUnpack(BufSeek(buf, 0), 4)
       IN IF ~header_size.ok
          THEN Raise("struct.error") /\ UNCHANGED <<buf, ud>>
          ELSE IF header_size.val % 12 # 0
          THEN Raise("AssertionError") /\ UNCHANGED <<buf, ud>>
          ELSE /\ buf' = header_size.buf
               /\ ud' = [n_stages |-> header_size.val \div 12,
                         stages |-> <<>>, k |-> 0]
               /\ pc' = "read_table"
               /\ UNCHANGED err
    /\ UNCHANGED <<stageList, cnf, pd, ps, us, plog, out, outList>>

\* lines 354-357: one entry of the stage table
ReadTableEntry ==
    /\ pc = "read_table"
    /\ Len(ud.stages) < ud.n_stages
    /\ LET name == BufRead(buf, 8)
           off == BufUnpack(name.buf, 4)
       IN IF Len(name.data) < 8 \/ ~off.ok
          THEN Raise("struct.error") /\ UNCHANGED <<buf, ud>>
          ELSE IF \E i \in 1..8 : name.data[i] >= 128
          THEN Raise("UnicodeDecodeError") /\ UNCHANGED <<buf, ud>>
          ELSE /\ buf' = off.buf
               /\ ud' = [ud EXCEPT !.stages =
                            Append(@, [name |-> RStrip0(name.data),
                                       off |-> off.val * SECTOR])]
               /\ UNCHANGED <<pc, err>>
    /\ UNCHANGED <<stageList, cnf, pd, ps, us, plog, out, outList>>

\* lines 359-361: open stage_list.txt for writing, load the dictionary
OpenStageList ==
    /\ pc = "read_table"
    /\ Len(ud.stages) = ud.n_stages
    /\ outList' = <<>>
    /\ ud' = [ud EXCEPT !.k = 1]
    /\ pc' = "unpack_loop"
    /\ UNCHANGED <<stageList, cnf, buf, pd, ps, us, plog, out, err>>

\* lines 370-373: close stage_list.txt
UnpackDirClose ==
    /\ pc = "unpack_loop"
    /\ ud.k > Len(ud.stages)
    /\ pc' = "done"
    /\ UNCHANGED <<stageList, cnf, buf, pd, ps, ud, us, plog, out, outList,
                   err>>

----------------------------------------------------------------------------
(* unpack_stage *)

\* dict.txt: one key|value line per file of the stage directories, the key
\* being the name code and the first letter of the extension
DictTxt ==
    {<<<<strcode(SplitLine(f).name), SplitLine(f).ext[1]>>, f>> :
        f \in DiskFiles}

\* build_dictionary
Table == [key \in {kv[1] : kv \in DictTxt} |->
            (CHOOSE kv \in DictTxt : kv[1] = key)[2]]

\* str.islower of a one-character string
IsLower(c) ==
    c \in (97..122) \cup {170, 181, 186} \cup (223..246) \cup (248..255)

\* the decimal digits of n, as text
RECURSIVE Str(_)
Str(n) == IF n < 10 THEN <<48 + n>> ELSE Str(n \div 10) \o <<48 + (n % 10)>>

Stg == <<115, 116, 103>>
Res == <<114, 101, 115>>
Mdl == <<95, 109, 100, 108>>
Tex == <<95, 116, 101, 120>>
DotDar == <<46, 100, 97, 114>>

\* a 16-bit value read with "<h"
Signed16(v) == IF v >= 32768 THEN v - 65536 ELSE v

NoUnpackStage ==
    [stage |-> <<>>, start |-> 0, header |-> 0, total |-> 0, files |-> <<>>,
     mdl_count |-> 1, tex_count |-> 1, dar_name |-> Stg, i |-> 0,
     section |-> None, cnf |-> <<>>, payload |-> 0, writes |-> <<>>]

\* lines 364-368 and 257-277: unpack_dir notes the stage name, seeks to the
\* stage and calls unpack_stage, which reads the sub-header
UnpackStageCall ==
    /\ pc = "unpack_loop"
    /\ ud.k <= Len(ud.stages)
    /\ LET stage == ud.stages[ud.k]
           b == BufSeek(buf, stage.off)
           header == BufUnpack(b, 2)
           total == BufUnpack(header.buf, 2)
       IN /\ outList' = Append(outList, stage.name)
          /\ buf' = total.buf
          /\ us' = [NoUnpackStage EXCEPT !.stage = stage.name,
                                         !.start = stage.off,
                                         !.header = Signed16(header.val),
                                         !.total = Signed16(total.val)]
          /\ IF header.ok /\ total.ok
             THEN pc' = "urecords" /\ UNCHANGED err
             ELSE Raise("struct.error")
    /\ UNCHANGED <<stageList, cnf, pd, ps, ud, plog, out>>

\* which of the name branches of lines 294-303 a record takes
NameBranch(code, mode, ext) ==
    IF code # 0 THEN "table"
    ELSE IF ext # ExtTrailer /\ mode \in {SecC, SecR} THEN "mdl"
    ELSE IF ext # ExtTrailer /\ mode = SecN THEN "tex"
    ELSE "cache_end"

\* lines 279-316: one record; at the terminator, the seek to the payload
ReadRecord ==
    /\ pc = "urecords"
    /\ LET name == BufUnpack(buf, 2)
           mode == BufUnpack(name.buf, 1)
           ext == BufUnpack(mode.buf, 1)
           size == BufUnpack(ext.buf, 4)
           dar_name == IF mode.val = SecR THEN Res ELSE us.dar_name
           branch == NameBranch(name.val, mode.val, ext.val)
           payload == us.start + us.header * SECTOR
           entry(n) == [name |-> n, mode |-> mode.val, size |-> size.val,
                        code |-> name.val, ext |-> ext.val]
       IN IF ~(name.ok /\ mode.ok /\ ext.ok /\ size.ok)
          THEN Raise("struct.error") /\ UNCHANGED <<buf, us>>
          ELSE IF mode.val = 0
          THEN IF payload < 0
               THEN Raise("OSError") /\ UNCHANGED <<buf, us>>
               ELSE /\ buf' = BufSeek(size.buf, payload)
                    /\ us' = [us EXCEPT !.payload = payload, !.i = 1]
                    /\ pc' = "uconfig"
                    /\ UNCHANGED err
          ELSE IF mode.val \notin {SecC, SecN, SecR, SecS}
                  \/ ~(IsLower(ext.val) \/ ext.val = ExtTrailer)
          THEN Raise("AssertionError") /\ UNCHANGED <<buf, us>>
          ELSE IF branch = "table" /\ <<name.val, ext.val>> \notin DOMAIN Table
          THEN Raise("KeyError") /\ UNCHANGED <<buf, us>>
          ELSE /\ buf' = size.buf
               /\ us' = [us EXCEPT
                     !.dar_name = dar_name,
                     !.mdl_count = IF branch = "mdl" THEN @ + 1 ELSE @,
                     !.tex_count = IF branch = "tex" THEN @ + 1 ELSE @,
                     !.files = Append(@, entry(
                         IF branch = "table" THEN Table[<<name.val, ext.val>>]
                         ELSE IF branch = "mdl"
                         THEN dar_name \o Mdl \o Str(us.mdl_count) \o DotDar
                         ELSE IF branch = "tex"
                         THEN dar_name \o Tex \o Str(us.tex_count) \o DotDar
                         ELSE CacheEnd))]
               /\ UNCHANGED <<pc, err>>
    /\ UNCHANGED <<stageList, cnf, pd, ps, ud, plog, out, outList>>

\* ".bin" in name
ContainsDotBin(name) ==
    \E i \in 1..(Len(name) - 3) : SubSeq(name, i, i + 3) = DotBin

DirectiveOf(mode) ==
    IF mode = SecC THEN DotCache
    ELSE IF mode = SecN THEN DotNocache
    ELSE IF mode = SecR THEN DotResident
    ELSE DotSound

\* write_stage_config, lines 231-251: the lines written for entry i
WriteConfigEntry ==
    /\ pc = "uconfig"
    /\ us.i <= Len(us.files)
    /\ LET name == us.files[us.i].name
           mode == IF ContainsDotBin(name) THEN SecN ELSE us.files[us.i].mode
       IN IF name = CacheEnd
          THEN us' = [us EXCEPT !.i = @ + 1]
          ELSE us' = [us EXCEPT
                   !.i = @ + 1,
                   !.section = mode,
                   !.cnf = @ \o (IF us.section # mode
                                 THEN <<DirectiveOf(mode)>> ELSE <<>>)
                             \o <<name>>]
    /\ UNCHANGED <<stageList, cnf, pc, buf, pd, ps, ud, plog, out, outList,
                   err>>

\* write_stage_config returns; the extraction loop starts
WriteConfigReturn ==
    /\ pc = "uconfig"
    /\ us.i > Len(us.files)
    /\ us' = [us EXCEPT !.i = 1]
    /\ pc' = "extract"
    /\ UNCHANGED <<stageList, cnf, buf, pd, ps, ud, plog, out, outList, err>>

\* lines 325-340: entry i of the extraction loop; writes logs the files
\* written, in order
ExtractEntry ==
    /\ pc = "extract"
    /\ us.i <= Len(us.files)
    /\ LET f == us.files[us.i]
           size == IF f.mode = SecC THEN us.files[us.i + 1].size - f.size
                   ELSE f.size
           r == BufRead(buf, size)
       IN IF f.name = CacheEnd
          THEN /\ buf' = BufSkipAlign(buf, SECTOR)
               /\ us' = [us EXCEPT !.i = @ + 1]
               /\ UNCHANGED <<pc, err>>
          ELSE IF f.mode = SecC /\ us.i = Len(us.files)
          THEN Raise("IndexError") /\ UNCHANGED <<buf, us>>
          ELSE /\ buf' = IF f.mode # SecC THEN BufSkipAlign(r.buf, SECTOR)
                         ELSE r.buf
               /\ us' = [us EXCEPT
                     !.i = @ + 1,
                     !.writes = Append(@, [entry |-> us.i, name |-> f.name,
                                           at |-> buf.cur, size |-> size,
                                           data |-> r.data])]
               /\ UNCHANGED <<pc, err>>
    /\ UNCHANGED <<stageList, cnf, pd, ps, ud, plog, out, outList>>

\* unpack_stage returns to the stage loop of unpack_dir
UnpackStageReturn ==
    /\ pc = "extract"
    /\ us.i > Len(us.files)
    /\ out' = Append(out, [stage |-> us.stage, start |-> us.start,
                           header |-> us.header, payload |-> us.payload,
                           files |-> us.files, cnf |-> us.cnf,
                           writes |-> us.writes])
    /\ ud' = [ud EXCEPT !.k = @ + 1]
    /\ pc' = "unpack_loop"
    /\ UNCHANGED <<stageList, cnf, buf, pd, ps, us, plog, outList, err>>

----------------------------------------------------------------------------
(* The inputs: stage_list.txt and the data.cnf of every stage directory *)

\* the data.cnf of the second stage: every section, .dar files in three of
\* them, an empty file and a cache run of three members
CnfS2 == <<DotResident, FileM, DotNocache, FileM, FileE, FileA,
           DotCache, FileA, FileB, FileM, DotSound, FileB>>

Lines == Directives \cup {FileA, FileM, FileX}

Configs == UNION {[1..n -> Lines] : n \in 0..MaxLines}

ShortConfigs == UNION {[1..n -> Lines] : n \in 0..MaxShort}

PairLists == {<<StageS1, StageS2>>, <<StageS2, StageS1>>}

Rep(x, n) == [i \in 1..n |-> x]

\* stages of about 255 files, the size at which the records fill a sector
WideConfigs ==
    {<<DotResident>> \o Rep(f, n) \o tail :
        f \in {FileE, FileA},
        n \in WideLo..(WideLo + WideSpan),
        tail \in {<<>>, <<DotCache, FileE>>, <<DotCache, FileA, FileB>>}}

\* stage lists of about 170 stages, the size at which the table fills a sector
ManyLists == {Rep(StageS1, n) : n \in ManyLo..(ManyLo + ManySpan)}

Start ==
    /\ pc = "pack_dir"
    /\ buf = EmptyFile
    /\ pd = NoPackDir
    /\ ps = NoPackStage
    /\ ud = NoUnpackDir
    /\ us = NoUnpackStage
    /\ plog = <<>>
    /\ out = <<>>
    /\ outList = <<>>
    /\ err = NoError

\* one stage with any data.cnf, or both stages, the first with a short one
Init ==
    /\ \/ /\ stageList = <<StageS1>>
          /\ \E c \in Configs : cnf = (StageS1 :> c) @@ (StageS2 :> CnfS2)
       \/ /\ stageList \in PairLists
          /\ \E c \in ShortConfigs :
                cnf = (StageS1 :> c) @@ (StageS2 :> CnfS2)
    /\ Start

NoBin(c) == \A i \in 1..Len(c) : c[i] # FileX

\* the same, without .bin files
InitNoBin ==
    /\ \/ /\ stageList = <<StageS1>>
          /\ \E c \in {d \in Configs : NoBin(d)} :
                cnf = (StageS1 :> c) @@ (StageS2 :> CnfS2)
       \/ /\ stageList \in PairLists
          /\ \E c \in {d \in ShortConfigs : NoBin(d)} :
                cnf = (StageS1 :> c) @@ (StageS2 :> CnfS2)
    /\ Start

InitWide ==
    /\ stageList = <<StageS1>>
    /\ \E c \in WideConfigs : cnf = (StageS1 :> c) @@ (StageS2 :> CnfS2)
    /\ Start

InitMany ==
    /\ stageList \in ManyLists
    /\ \E c \in {<<>>, <<DotNocache, FileA>>} :
          cnf = (StageS1 :> c) @@ (StageS2 :> CnfS2)
    /\ Start

Next ==
    \/ PackDirOpen
    \/ PackStageCall
    \/ ReadConfigLine
    \/ PackSeekHeader
    \/ PackEntryRecord
    \/ PackHeaderAlign
    \/ PackPayload
    \/ PackStageReturn
    \/ PackTableBegin
    \/ PackTableEntry
    \/ PackDirClose
    \/ UnpackDirOpen
    \/ ReadTableEntry
    \/ OpenStageList
    \/ UnpackStageCall
    \/ ReadRecord
    \/ WriteConfigEntry
    \/ WriteConfigReturn
    \/ ExtractEntry
    \/ UnpackStageReturn
    \/ UnpackDirClose

Spec == Init /\ [][Next]_vars

SpecNoBin == InitNoBin /\ [][Next]_vars

SpecWide == InitWide /\ [][Next]_vars

SpecMany == InitMany /\ [][Next]_vars

----------------------------------------------------------------------------
(* Views of the state used by the properties *)

Indices(s) == 1..Len(s)

\* the bytes of the container at p .. p + n - 1, as a little-endian value
Stored(p, n) == FromLE([i \in 1..n |-> ByteAt(buf, p + i - 1)])

\* the stages whose records are (being) written: the returned pack_stage
\* calls and the running one
PackViews ==
    {[files |-> plog[j].files, recs |-> plog[j].recs, segs |-> plog[j].segs] :
        j \in Indices(plog)}
    \cup {[files |-> ps.files, recs |-> ps.recs, segs |-> ps.segs]}

\* the directives of a data.cnf, in order
DirectivesOf(lines) == SelectSeq(lines, LAMBDA l : l \in Directives)

\* the section each file line of a data.cnf stands under, in order
RECURSIVE SectionsOf(_, _)
SectionsOf(lines, section) ==
    IF lines = <<>> THEN <<>>
    ELSE IF Head(lines) \in Directives
    THEN SectionsOf(Tail(lines), DirectiveSection(Head(lines)))
    ELSE <<section>> \o SectionsOf(Tail(lines), section)

\* the assertions of the config loop of pack_stage (lines 77-97) over a
\* whole data.cnf
RECURSIVE PassesOrderCheck(_, _)
PassesOrderCheck(lines, section) ==
    \/ lines = <<>>
    \/ IF Head(lines) \in Directives
       THEN /\ DirectiveAllowed(Head(lines), section)
            /\ PassesOrderCheck(Tail(lines), DirectiveSection(Head(lines)))
       ELSE /\ section # None
            /\ PassesOrderCheck(Tail(lines), section)

FileStartsConfig(lines) == lines # <<>> /\ lines[1] \notin Directives

ConfigAccepted == pc \in {"records", "payload"}

ConfigRejected == pc = "failed" /\ err.at = "config"

StageOf(f) == f.name \o <<46>> \o f.ext

\* the sum of the sizes of the members of the cache run before entry i
RECURSIVE RunBefore(_, _)
RunBefore(files, i) ==
    IF i = 1 \/ files[i - 1].section # SecC THEN 0
    ELSE RunBefore(files, i - 1) + files[i - 1].size

LastOfRun(files, i) ==
    files[i].section = SecC /\ (i = Len(files) \/ files[i + 1].section # SecC)

----------------------------------------------------------------------------
(* C1 *)

\* C1 (as claimed): when the program is done, every stage was unpacked to as
\* many files as it had assets, the i-th file written holds the bytes of the
\* i-th asset and stands, in the data.cnf written, under the section the
\* asset was packed from.
C1_RoundTrip ==
    pc = "done" =>
        /\ Len(out) = Len(plog)
        /\ \A j \in Indices(plog) :
              LET files == plog[j].files
                  sections == SectionsOf(out[j].cnf, None)
              IN /\ Len(out[j].writes) = Len(files)
                 /\ Len(sections) = Len(files)
                 /\ \A i \in Indices(files) :
                       /\ out[j].writes[i].data = StageDir[StageOf(files[i])]
                       /\ sections[i] = files[i].section

----------------------------------------------------------------------------
(* C2 *)

Rank(d) ==
    IF d = DotResident THEN 1
    ELSE IF d = DotNocache THEN 2
    ELSE IF d = DotCache THEN 3
    ELSE 4

StrictlyIncreasing(ds) ==
    \A i \in 1..(Len(ds) - 1) : Rank(ds[i]) < Rank(ds[i + 1])

\* C2 (as claimed): a data.cnf that does not start with a file line is
\* accepted by the config reader if and only if its directives are in
\* strictly increasing order .resident < .nocache < .cache < .sound.
C2_ForwardSkips ==
    (ps.stage # <<>> /\ ~FileStartsConfig(cnf[ps.stage])) =>
        /\ ConfigAccepted => StrictlyIncreasing(DirectivesOf(cnf[ps.stage]))
        /\ ConfigRejected => ~StrictlyIncreasing(DirectivesOf(cnf[ps.stage]))

AcceptedOrders ==
    {<<>>,
     <<DotResident>>, <<DotNocache>>,
     <<DotResident, DotNocache>>, <<DotResident, DotCache>>,
     <<DotNocache, DotCache>>,
     <<DotResident, DotNocache, DotCache>>,
     <<DotResident, DotCache, DotSound>>,
     <<DotNocache, DotCache, DotSound>>,
     <<DotResident, DotNocache, DotCache, DotSound>>}

\* C2 (amended): the config reader accepts a data.cnf if and only if no file
\* line precedes the first directive and the directives are one of the
\* orders in which .resident comes first, .nocache comes first or right
\* after .resident, .cache comes right after .resident or .nocache (never
\* first) and .sound comes right after .cache; it rejects every other
\* data.cnf with an AssertionError.
C2_ConfigOrder ==
    ps.stage # <<>> =>
        LET ok == /\ DirectivesOf(cnf[ps.stage]) \in AcceptedOrders
                  /\ ~FileStartsConfig(cnf[ps.stage])
        IN /\ ConfigAccepted => ok
           /\ ConfigRejected => ~ok /\ err.type = "AssertionError"

\* a .cache that is the first directive has been rejected
C2_Witness ==
    /\ ConfigRejected
    /\ ps.li = 1
    /\ cnf[ps.stage][1] = DotCache

----------------------------------------------------------------------------
(* C3 *)

\* C3 (as claimed): the section_tag byte of every entry record in the
\* container is the letter of the section of the entry, 'n' for a .bin entry.
C3_BinTaggedNocache ==
    \A v \in PackViews : \A r \in Indices(v.recs) :
        v.recs[r].file # 0 =>
            LET f == v.files[v.recs[r].file]
            IN Stored(v.recs[r].pos + 2, 1) =
                   IF f.ext = ExtBin THEN SecN ELSE f.section

\* C3 (amended): the section_tag byte of every entry record in the container
\* is the letter of the section of the entry, 's' for a .bin entry whatever
\* its section.
C3_BinTaggedSound ==
    \A v \in PackViews : \A r \in Indices(v.recs) :
        v.recs[r].file # 0 =>
            LET f == v.files[v.recs[r].file]
            IN Stored(v.recs[r].pos + 2, 1) =
                   IF f.ext = ExtBin THEN SecS ELSE f.section

\* the record of a .bin entry of the Resident section has been written
C3_Witness ==
    \E r \in Indices(ps.recs) :
        /\ ps.recs[r].file # 0
        /\ ps.files[ps.recs[r].file].ext = ExtBin
        /\ ps.files[ps.recs[r].file].section = SecR
        /\ Stored(ps.recs[r].pos + 2, 1) = SecS

----------------------------------------------------------------------------
(* C4 *)

\* C4 (as claimed): when the program is done, the record of every member of
\* a cache run stores the sum of the sizes of the members before it, the
\* record after the last member is the trailer (name_code 0, 'c', 0xFF) with
\* the sum of all, each run has one trailer, and unpack_stage took for the
\* size of every member the stored value of the next record minus its own,
\* which is the size of the member.
C4_CacheRun ==
    pc = "done" =>
        /\ Len(out) = Len(plog)
        /\ \A j \in Indices(plog) :
              LET files == plog[j].files
                  recs == plog[j].recs
              IN /\ Cardinality({r \in Indices(recs) : recs[r].file = 0})
                        = Cardinality({i \in Indices(files) :
                                           LastOfRun(files, i)})
                 /\ \A r \in Indices(recs) :
                       LET i == recs[r].file
                       IN (i # 0 /\ files[i].section = SecC) =>
                           /\ Stored(recs[r].pos + 4, 4) = RunBefore(files, i)
                           /\ LastOfRun(files, i) =>
                                 /\ Stored(recs[r].pos + 8, 2) = 0
                                 /\ Stored(recs[r].pos + 10, 1) = SecC
                                 /\ Stored(recs[r].pos + 11, 1) = ExtTrailer
                                 /\ Stored(recs[r].pos + 12, 4) =
                                        RunBefore(files, i) + files[i].size
                           /\ \E w \in Indices(out[j].writes) :
                                 /\ out[j].writes[w].entry = r
                                 /\ out[j].writes[w].size = files[i].size
                                 /\ out[j].writes[w].size =
                                        Stored(recs[r].pos + 12, 4)
                                        - Stored(recs[r].pos + 4, 4)

----------------------------------------------------------------------------
(* C5 *)

\* C5 (as claimed): the header_sectors field of every packed stage is the
\* number of sectors taken by its sub-header and records, and the start of
\* the stage plus header_sectors sectors is the position of its first
\* payload byte.
C5_HeaderSectors ==
    \A j \in Indices(plog) :
        /\ Stored(plog[j].start, 2) * SECTOR
               = Aligned(4 + 8 * Len(plog[j].recs), SECTOR)
        /\ plog[j].start + Stored(plog[j].start, 2) * SECTOR = plog[j].payload

----------------------------------------------------------------------------
(* C6 *)

\* C6 (as claimed): once the stage table is written, the offset it holds for
\* each stage, times 2048, is the position at which pack_stage started to
\* write that stage, and so is the position unpack_dir seeks to.
C6_TableOffsets ==
    /\ pc \in {"packed", "read_table", "unpack_loop", "done"} =>
          \A j \in Indices(plog) :
              Stored(4 + 12 * (j - 1) + 8, 4) * SECTOR = plog[j].start
    /\ \A j \in Indices(ud.stages) : ud.stages[j].off = plog[j].start

----------------------------------------------------------------------------
(* C7 *)

Sector(p) == p % SECTOR = 0

SegsAligned(files, segs) ==
    \A i \in Indices(segs) :
        /\ files[i].section # SecC =>
              Sector(segs[i].from) /\ segs[i].aligned /\ Sector(segs[i].end)
        /\ files[i].section = SecC =>
              /\ IF i = 1 \/ files[i - 1].section # SecC
                 THEN Sector(segs[i].from)
                 ELSE segs[i].from = segs[i - 1].to
              /\ IF LastOfRun(files, i)
                 THEN segs[i].aligned /\ Sector(segs[i].end)
                 ELSE segs[i].end = segs[i].to
        /\ (segs[i].aligned /\ Sector(segs[i].to)) => segs[i].end = segs[i].to

\* C7: every payload written outside a cache run starts on a sector boundary
\* and is padded to one; a cache run starts on a sector boundary, its members
\* follow one another without padding and the run is padded to a sector
\* boundary after its last member; an align at a sector boundary writes
\* nothing (after a payload, and after a stage in pack_dir).
C7_SectorAligned ==
    /\ \A v \in PackViews : SegsAligned(v.files, v.segs)
    /\ \A j \in Indices(plog) :
          Sector(plog[j].total) => plog[j].end = plog[j].total

\* a stage was packed with a cache run of several members, an entry outside
\* it, and an empty payload whose align started on a sector boundary
C7_Witness ==
    \E j \in Indices(plog) :
        /\ \E i \in Indices(plog[j].files) :
              /\ plog[j].files[i].section = SecC
              /\ ~LastOfRun(plog[j].files, i)
        /\ \E i \in Indices(plog[j].files) :
              /\ plog[j].files[i].section # SecC
              /\ plog[j].segs[i].to = plog[j].segs[i].from
              /\ plog[j].segs[i].aligned
              /\ plog[j].segs[i].end = plog[j].segs[i].to

----------------------------------------------------------------------------
(* C8 *)

\* C8 (as claimed): the section_tag byte of the slot after the last record of
\* every packed stage is 0 and lies in the header region; the record loop of
\* unpack_stage ends at it without an exception, with exactly the records
\* pack_stage wrote.
C8_Terminated ==
    /\ \A j \in Indices(plog) :
          /\ Stored(plog[j].recsEnd + 2, 1) = 0
          /\ plog[j].recsEnd + 2 < plog[j].payload
    /\ ~(pc = "failed" /\ err.at = "urecords")
    /\ pc \in {"uconfig", "extract"} =>
          /\ Len(us.files) = Len(plog[ud.k].recs)
          /\ \A r \in Indices(us.files) :
                us.files[r].size = plog[ud.k].recs[r].value

----------------------------------------------------------------------------
(* C9 *)

\* C9 (as claimed): of the records of an unpacked stage, those named
\* "cache_end" are exactly those with ext_tag 0xFF, and every other record
\* had a file written for it.
C9_TrailerByExt ==
    \A j \in Indices(out) : \A r \in Indices(out[j].files) :
        /\ out[j].files[r].name = CacheEnd <=> out[j].files[r].ext = ExtTrailer
        /\ out[j].files[r].ext # ExtTrailer =>
              \E w \in Indices(out[j].writes) : out[j].writes[w].entry = r

----------------------------------------------------------------------------
(* C10 *)

\* C10 (as claimed): the data.cnf written for an unpacked stage has one file
\* line per asset of the packed stage, in order and under the section the
\* asset was packed from, and passes the directive-order check of pack_stage.
C10_ConfigMirrors ==
    \A j \in Indices(out) :
        /\ SectionsOf(out[j].cnf, None)
               = [i \in Indices(plog[j].files) |-> plog[j].files[i].section]
        /\ PassesOrderCheck(out[j].cnf, None)

====
